---- MODULE Spec2Model ----
(***************************************************************************)
(* Model of the JIRA crawl pipeline of rag-demo:                           *)
(*   JIRAAuthenticator        (jira/auth.py)                               *)
(*   JIRAXMLDataExtractor     (jira/xml_extractors.py)                     *)
(*   JIRARequestsScraper      (data/jira/scraper.py)                       *)
(* The scraper object is the state; the tracker, the file system and the   *)
(* terminal are the environment, whose answers are drawn with \E.          *)
(***************************************************************************)
EXTENDS Integers, Sequences, FiniteSets, TLC

\* ------------------------------------------------------------------ bounds
MaxRange == 2          \* longest ticket range start_id..end_id that is crawled
MaxRetriesBound == 2   \* largest max_retries passed to crawl_tickets
MaxDelay == 1          \* largest delay (in whole seconds) passed to crawl_tickets
MaxCalls == 2          \* calls made on one scraper object
MaxCrawls == 1         \* crawl_tickets calls among them
MaxTextLen == 3        \* longest text given to chunk_text
MaxTokens == 3         \* largest max_tokens given to chunk_text
MaxOverlap == 3        \* largest overlap given to chunk_text
MaxChunks == 5         \* iterations of the loop of chunk_text that are followed
MaxRelated == 3        \* longest related_tickets list given to format_for_rag
MaxLinks == 1          \* most issuelink elements under one inwardlinks or outwardlinks
MaxLinkTypes == 2      \* most issuelinktype elements of an issue
MaxPieces == 3         \* most pieces (letters, blanks, tags) of the text of an element

\* ------------------------------------------------------ program constants
project_key == "SL"
start_id == 1

VARIABLES
    authenticated,   \* JIRARequestsScraper._authenticated
    cookies,         \* authenticator.session.cookies (the in-memory jar)
    cookie_file,     \* the pickle at authenticator.cookie_file
    username,        \* authenticator.username ("" for None)
    password,        \* authenticator.password ("" for None)
    authLog,         \* what the last authenticator.ensure_authenticated did
    flowCount,       \* number of authenticator.ensure_authenticated runs
    ensureCalls,     \* number of scraper.ensure_authenticated calls
    lastEnsure,      \* what the last scraper.ensure_authenticated returned
    calls,           \* number of public calls made on the scraper
    crawls,          \* number of crawl_tickets calls among them
    pc,              \* position inside crawl_tickets ("idle" outside it)
    end_id,          \* crawl_tickets argument
    delay,           \* crawl_tickets argument
    max_retries,     \* crawl_tickets argument
    ticket_num,      \* loop variable of crawl_tickets
    attempt,         \* loop variable of the retry loop
    ticket_data,     \* local of crawl_tickets
    resps,           \* the tracker's answers to the GETs of the current ticket
    stats,           \* local of crawl_tickets, its return value
    log,             \* GETs, save_ticket calls and sleeps of the current crawl_tickets call
    files,           \* the .yml files in output_dir
    raisedBy,        \* where an exception left crawl_tickets ("" if none)
    date_text,       \* argument of the last _extract_date: the text of the tag
    date_out,        \* what that _extract_date returned
    date_via         \* the branch of _convert_to_iso8601 that returned it

authVars == <<authenticated, cookies, cookie_file, username, password,
              authLog, flowCount, ensureCalls, lastEnsure>>
crawlVars == <<pc, end_id, delay, max_retries, ticket_num, attempt,
               ticket_data, resps, stats, log, files, raisedBy>>
\* ------------------------------------------------- variables of the other
\* operations, one group per operation
VARIABLES
    ch_text,         \* argument text of chunk_text
    ch_max_tokens,   \* argument max_tokens
    ch_overlap,      \* argument overlap
    ch_start,        \* local start
    ch_chunks,       \* local chunks
    ch_result,       \* what chunk_text returned
    ch_pc            \* position inside chunk_text

VARIABLES
    fmt_related,     \* ticket_data['related_tickets'] given to format_for_rag
    fmt_sections,    \* rag_data['related_tickets'] it returned
    fmt_pc           \* position of the format_for_rag call

VARIABLES
    link_doc,        \* the issuelinks element given to _extract_issue_links
    link_out,        \* the related_tickets it returned
    link_pc          \* position of the _extract_issue_links call

VARIABLES
    clean_field,     \* the tag _extract_text is asked for
    clean_text,      \* the text of that tag in the document
    clean_out,       \* what _extract_text returned
    clean_again,     \* _clean_html_for_rag of what it returned
    clean_pc         \* position of the calls

dateVars == <<date_text, date_out, date_via>>
chunkVars == <<ch_text, ch_max_tokens, ch_overlap, ch_start, ch_chunks, ch_result, ch_pc>>
formatVars == <<fmt_related, fmt_sections, fmt_pc>>
linkVars == <<link_doc, link_out, link_pc>>
cleanVars == <<clean_field, clean_text, clean_out, clean_again, clean_pc>>

\* the state of an operation that is not running
DateIdle ==
    /\ date_text = <<>>
    /\ date_out = <<>>
    /\ date_via = ""
ChunkIdle ==
    /\ ch_text = <<>>
    /\ ch_max_tokens = 1
    /\ ch_overlap = 0
    /\ ch_start = 0
    /\ ch_chunks = <<>>
    /\ ch_result = <<>>
    /\ ch_pc = "idle"
FormatIdle ==
    /\ fmt_related = <<>>
    /\ fmt_sections = <<>>
    /\ fmt_pc = "idle"
LinkIdle ==
    /\ link_doc = [present |-> FALSE, blocks |-> <<>>]
    /\ link_out = <<>>
    /\ link_pc = "idle"
CleanIdle ==
    /\ clean_field = ""
    /\ clean_text = <<>>
    /\ clean_out = <<>>
    /\ clean_again = <<>>
    /\ clean_pc = "idle"

\* what an operation leaves alone: the scraper and the other operations
scraperVars == <<authVars, crawlVars, calls, crawls>>
sideVars == <<dateVars, chunkVars, formatVars, linkVars, cleanVars>>
dateRest == <<scraperVars, chunkVars, formatVars, linkVars, cleanVars>>
dateRestIdle == ChunkIdle /\ FormatIdle /\ LinkIdle /\ CleanIdle
chunkRest == <<scraperVars, dateVars, formatVars, linkVars, cleanVars>>
chunkRestIdle == DateIdle /\ FormatIdle /\ LinkIdle /\ CleanIdle
formatRest == <<scraperVars, dateVars, chunkVars, linkVars, cleanVars>>
formatRestIdle == DateIdle /\ ChunkIdle /\ LinkIdle /\ CleanIdle
linkRest == <<scraperVars, dateVars, chunkVars, formatVars, cleanVars>>
linkRestIdle == DateIdle /\ ChunkIdle /\ FormatIdle /\ CleanIdle
cleanRest == <<scraperVars, dateVars, chunkVars, formatVars, linkVars>>
cleanRestIdle == DateIdle /\ ChunkIdle /\ FormatIdle /\ LinkIdle

vars == <<scraperVars, sideVars>>

\* ------------------------------------------------------------ environment
TicketId(key, n) == key \o "-" \o ToString(n)

TicketNums == start_id .. (start_id + MaxRange - 1)
TicketIds == {TicketId(project_key, n) : n \in TicketNums}

\* answers of the tracker to GET .../issue-xml/{id}/{id}.xml
\* a <key> element whose text carries markup
MarkupKey == "<b>SL-1</b>"

Responses ==
    {[kind |-> "ok", hasItem |-> TRUE, key |-> k] :
        k \in TicketIds \cup {"", MarkupKey}}
    \cup {[kind |-> "ok", hasItem |-> FALSE, key |-> ""]}
    \cup {[kind |-> k, hasItem |-> FALSE, key |-> ""] :
            k \in {"not_found", "http_error", "network_error", "parse_error"}}

\* the answers to the GET for ticket_id: the document is that of the ticket
\* itself or that of the first ticket of the project
ResponsesFor(ticket_id) ==
    {r \in Responses :
        r.key \in {"", ticket_id, TicketId(project_key, start_id), MarkupKey}}

Transient(resp) == resp.kind \in {"http_error", "network_error", "parse_error"}

\* answers of the tracker to GET /secure/Dashboard.jspa
ProbeKinds == {"ok", "login_redirect", "unauthorized", "no_marker", "network_error"}

\* outcomes of writing a file
WriteKinds == {"ok", "open_fails", "dump_fails"}

\* what the tracker, the disk and the terminal answer during one run of
\* authenticator.ensure_authenticated; an answer that the chosen path never
\* asks for is held at its first value
AuthEnvs ==
    {e \in [probe1 : ProbeKinds, choice : {"1", "2"}, user : {"", "u"},
            pass : {"", "p"}, page : {"ok", "error", "no_form"},
            post : {"ok", "error"}, probe2 : ProbeKinds, save : WriteKinds] :
        /\ (e.choice = "1") => (e.user = "" /\ e.pass = "" /\ e.page = "ok" /\ e.post = "ok")
        /\ (e.user = "") => (e.pass = "")
        /\ (e.choice = "2" /\ e.pass = "") => (e.page = "ok")
        /\ (e.page # "ok") => (e.post = "ok")
        /\ (e.choice = "2" /\ (e.pass = "" \/ e.page # "ok" \/ e.post # "ok"))
              => (e.probe2 = "ok")
        /\ (e.probe2 # "ok" \/ (e.choice = "2" /\ (e.pass = "" \/ e.page # "ok" \/ e.post # "ok")))
              => (e.save = "ok")}

NoFile == [state |-> "absent", jar |-> {}]
CorruptFile == [state |-> "corrupt", jar |-> {}]

\* ---------------------------------------------------------- authenticator
save_cookies(jar, file, save) ==
    CASE save = "ok" -> [state |-> "ok", jar |-> jar]
      [] save = "open_fails" -> file
      [] OTHER -> CorruptFile

load_cookies(jar, file) ==
    IF file.state = "ok"
    THEN [ok |-> TRUE, cookies |-> jar \cup file.jar]
    ELSE [ok |-> FALSE, cookies |-> jar]

test_authentication(probe) == probe = "ok"

get_login_page(page) == page = "ok"

\* the entry that save_cookies leaves in the log of the flow
save_event(save) ==
    CASE save = "ok" -> "save_ok"
      [] save = "open_fails" -> "save_open_fails"
      [] OTHER -> "save_dump_fails"

\* login_with_credentials with a second POST after a failed probe
login_with_credentials_retry(jar, file, env) ==
    IF ~get_login_page(env.page)
    THEN [result |-> FALSE, cookies |-> jar, cookie_file |-> file,
          events |-> <<"login_page_fail">>]
    ELSE IF env.post = "error"
    THEN [result |-> FALSE, cookies |-> jar, cookie_file |-> file,
          events |-> <<"login_page_ok", "post_fail">>]
    ELSE IF test_authentication(env.probe2)
    THEN [result |-> TRUE, cookies |-> jar \cup {"login"},
          cookie_file |-> save_cookies(jar \cup {"login"}, file, env.save),
          events |-> <<"login_page_ok", "post_ok", "probe_ok", save_event(env.save)>>]
    ELSE [result |-> FALSE, cookies |-> jar \cup {"login"}, cookie_file |-> file,
          events |-> <<"login_page_ok", "post_ok", "probe_fail", "post_ok", "probe_fail">>]

\* login_with_credentials without the save_cookies call of line 258
login_with_credentials_no_save(jar, file, env) ==
    IF ~get_login_page(env.page)
    THEN [result |-> FALSE, cookies |-> jar, cookie_file |-> file,
          events |-> <<"login_page_fail">>]
    ELSE IF env.post = "error"
    THEN [result |-> FALSE, cookies |-> jar, cookie_file |-> file,
          events |-> <<"login_page_ok", "post_fail">>]
    ELSE IF test_authentication(env.probe2)
    THEN [result |-> TRUE, cookies |-> jar \cup {"login"}, cookie_file |-> file,
          events |-> <<"login_page_ok", "post_ok", "probe_ok">>]
    ELSE [result |-> FALSE, cookies |-> jar \cup {"login"}, cookie_file |-> file,
          events |-> <<"login_page_ok", "post_ok", "probe_fail">>]

login_with_credentials(jar, file, env) ==
    IF ~get_login_page(env.page)
    THEN [result |-> FALSE, cookies |-> jar, cookie_file |-> file,
          events |-> <<"login_page_fail">>]
    ELSE IF env.post = "error"
    THEN [result |-> FALSE, cookies |-> jar, cookie_file |-> file,
          events |-> <<"login_page_ok", "post_fail">>]
    ELSE IF test_authentication(env.probe2)
    THEN [result |-> TRUE, cookies |-> jar \cup {"login"},
          cookie_file |-> save_cookies(jar \cup {"login"}, file, env.save),
          events |-> <<"login_page_ok", "post_ok", "probe_ok", save_event(env.save)>>]
    ELSE [result |-> FALSE, cookies |-> jar \cup {"login"}, cookie_file |-> file,
          events |-> <<"login_page_ok", "post_ok", "probe_fail">>]

\* login_with_cookies without the clear of line 283
login_with_cookies_no_clear(jar, file, env) ==
    IF test_authentication(env.probe2)
    THEN [result |-> TRUE, cookies |-> jar \cup {"input"},
          cookie_file |-> save_cookies(jar \cup {"input"}, file, env.save),
          events |-> <<"install", "probe_ok", save_event(env.save)>>]
    ELSE [result |-> FALSE, cookies |-> jar \cup {"input"}, cookie_file |-> file,
          events |-> <<"install", "probe_fail">>]

login_with_cookies(jar, file, env) ==
    IF test_authentication(env.probe2)
    THEN [result |-> TRUE, cookies |-> {"input"},
          cookie_file |-> save_cookies({"input"}, file, env.save),
          events |-> <<"clear", "install", "probe_ok", save_event(env.save)>>]
    ELSE [result |-> FALSE, cookies |-> {"input"}, cookie_file |-> file,
          events |-> <<"clear", "install", "probe_fail">>]

\* ensure_authenticated, lines 320-391: the method the terminal chooses and
\* the login by that method; jar is the jar after load_cookies
prompt_and_login(jar, file, user, pass, env) ==
    LET user2 == IF user = "" THEN env.user ELSE user
        pass2 == IF pass = "" THEN env.pass ELSE pass
    IN  IF env.choice = "1"
        THEN LET r == login_with_cookies(jar, file, env)
             IN  [result |-> r.result, cookies |-> r.cookies,
                  cookie_file |-> r.cookie_file, username |-> user,
                  password |-> pass, events |-> <<"choose_cookies">> \o r.events]
        ELSE IF user2 = ""
        THEN [result |-> FALSE, cookies |-> jar, cookie_file |-> file,
              username |-> user2, password |-> pass,
              events |-> <<"choose_credentials", "credentials_missing">>]
        ELSE IF pass2 = ""
        THEN [result |-> FALSE, cookies |-> jar, cookie_file |-> file,
              username |-> user2, password |-> pass2,
              events |-> <<"choose_credentials", "credentials_missing">>]
        ELSE LET r == login_with_credentials(jar, file, env)
             IN  [result |-> r.result, cookies |-> r.cookies,
                  cookie_file |-> r.cookie_file, username |-> user2,
                  password |-> pass2,
                  events |-> <<"choose_credentials">> \o r.events]

\* ensure_authenticated that trusts loaded cookies without the probe
authenticator_ensure_authenticated_no_probe(jar, file, user, pass, env) ==
    LET loaded == load_cookies(jar, file)
    IN  IF loaded.ok
        THEN [result |-> TRUE, cookies |-> loaded.cookies, cookie_file |-> file,
              username |-> user, password |-> pass, events |-> <<"load_ok">>]
        ELSE LET r == prompt_and_login(loaded.cookies, file, user, pass, env)
             IN  [r EXCEPT !.events = <<"load_none">> \o @]

authenticator_ensure_authenticated(jar, file, user, pass, env) ==
    LET loaded == load_cookies(jar, file)
    IN  IF loaded.ok /\ test_authentication(env.probe1)
        THEN [result |-> TRUE, cookies |-> loaded.cookies, cookie_file |-> file,
              username |-> user, password |-> pass,
              events |-> <<"load_ok", "probe_ok">>]
        ELSE LET r == prompt_and_login(loaded.cookies, file, user, pass, env)
             IN  [r EXCEPT !.events =
                    (IF loaded.ok THEN <<"load_ok", "probe_fail">>
                                  ELSE <<"load_none">>) \o @]

\* ---------------------------------------------------------------- scraper
\* ensure_cached without the test of lines 69-70
ensure_cached_never(flag) == FALSE

\* JIRARequestsScraper.ensure_authenticated: does the _authenticated flag
\* let the call return without running the authenticator?
ensure_cached(flag) == flag

\* scraper.ensure_authenticated as a relation between the state before and
\* after the call; env is what the tracker, the disk and the terminal answer
ensure_authenticated(env) ==
    /\ ensureCalls' = ensureCalls + 1
    /\ IF ensure_cached(authenticated)
       THEN /\ lastEnsure' = TRUE
            /\ UNCHANGED <<authenticated, cookies, cookie_file, username,
                           password, authLog, flowCount>>
       ELSE LET r == authenticator_ensure_authenticated(cookies, cookie_file,
                                                        username, password, env)
            IN  /\ authenticated' = IF r.result THEN TRUE ELSE authenticated
                /\ lastEnsure' = r.result
                /\ cookies' = r.cookies
                /\ cookie_file' = r.cookie_file
                /\ username' = r.username
                /\ password' = r.password
                /\ authLog' = r.events
                /\ flowCount' = flowCount + 1

\* Python's None and dicts: a dict is its key set and its "id" entry
None == [isNone |-> TRUE, keys |-> {}, id |-> ""]

RecordKeys == {"id", "title", "type", "status", "priority", "assignee",
               "reporter", "created", "updated", "resolution", "description",
               "environment", "labels", "components", "fix_versions",
               "related_tickets", "subtasks", "comments"}

\* bool(x) of an Optional[dict]
Truthy(data) == ~data.isNone /\ data.keys # {}

\* _clean_html_for_rag on the texts a <key> element has here: a <b> element
\* becomes its text between two pairs of asterisks, text without markup is
\* left as it is
clean_html_for_rag(text) ==
    IF text = MarkupKey THEN "**SL-1**" ELSE text

\* _extract_text on the stripped text of the element
extract_text(text) == clean_html_for_rag(text)

\* JIRAXMLDataExtractor.extract_ticket_data on the body of a 200 response
extract_ticket_data(resp) ==
    IF ~resp.hasItem
    THEN [isNone |-> FALSE, keys |-> {}, id |-> ""]
    ELSE [isNone |-> FALSE, keys |-> RecordKeys, id |-> extract_text(resp.key)]

\* get_ticket_data_body without lines 126-127: the requested ID is not put
\* into a record that has none
get_ticket_data_body_no_id(ticket_id, resp) ==
    IF resp.kind = "network_error"
    THEN [raised |-> TRUE, value |-> None]
    ELSE IF resp.kind = "not_found"
    THEN [raised |-> FALSE, value |-> None]
    ELSE IF resp.kind \in {"http_error", "parse_error"}
    THEN [raised |-> TRUE, value |-> None]
    ELSE [raised |-> FALSE, value |-> extract_ticket_data(resp)]

\* the try block of get_ticket_data: the value it returns or the exception
\* it raises
get_ticket_data_body(ticket_id, resp) ==
    IF resp.kind = "network_error"
    THEN [raised |-> TRUE, value |-> None]
    ELSE IF resp.kind = "not_found"
    THEN [raised |-> FALSE, value |-> None]
    ELSE IF resp.kind \in {"http_error", "parse_error"}
    THEN [raised |-> TRUE, value |-> None]
    ELSE LET data == extract_ticket_data(resp)
         IN  [raised |-> FALSE,
              value |-> IF data.id = ""
                        THEN [data EXCEPT !.id = ticket_id, !.keys = @ \cup {"id"}]
                        ELSE data]

\* get_ticket_data without the 404 test of lines 116-118 and without the
\* except clause: raise_for_status raises on the 404
get_ticket_data_no_404(ticket_id, resp) ==
    IF resp.kind = "not_found"
    THEN [raised |-> TRUE, value |-> None]
    ELSE get_ticket_data_body(ticket_id, resp)

\* get_ticket_data: the body under its except clause
get_ticket_data(ticket_id, resp) ==
    LET r == get_ticket_data_body(ticket_id, resp)
    IN  IF r.raised THEN [raised |-> FALSE, value |-> None] ELSE r

\* writing {id}.yml in output_dir
WriteFile(fs, name, write) ==
    CASE write = "ok" -> {f \in fs : f.name # name} \cup {[name |-> name, complete |-> TRUE]}
      [] write = "open_fails" -> fs
      [] OTHER -> {f \in fs : f.name # name} \cup {[name |-> name, complete |-> FALSE]}

\* the try block of save_ticket (lines 202-221): the files it leaves and the
\* exception it raises
save_ticket_body(data, fs, write) ==
    IF "id" \notin data.keys
    THEN [raised |-> TRUE, result |-> FALSE, files |-> fs]
    ELSE [raised |-> write # "ok", result |-> write = "ok",
          files |-> WriteFile(fs, data.id, write)]

\* save_ticket without its except clause
save_ticket_unguarded(data, fs, write) ==
    IF ~Truthy(data)
    THEN [raised |-> FALSE, result |-> FALSE, files |-> fs]
    ELSE save_ticket_body(data, fs, write)

\* save_ticket: the body under its falsy-input guard and its except clause
save_ticket(data, fs, write) ==
    IF ~Truthy(data)
    THEN [raised |-> FALSE, result |-> FALSE, files |-> fs]
    ELSE LET r == save_ticket_body(data, fs, write)
         IN  IF r.raised THEN [r EXCEPT !.raised = FALSE, !.result = FALSE] ELSE r

ZeroStats == [total_attempted |-> 0, successful |-> 0, failed |-> 0, not_found |-> 0]

\* count_outcome without its inner else branch: a failed write is not counted
count_outcome_drop_failed(st, truthy, saved) ==
    IF truthy
    THEN IF saved THEN [st EXCEPT !.successful = @ + 1] ELSE st
    ELSE [st EXCEPT !.not_found = @ + 1]

\* count_outcome with an empty result counted as a failure
count_outcome_none_failed(st, truthy, saved) ==
    IF truthy
    THEN IF saved
         THEN [st EXCEPT !.successful = @ + 1]
         ELSE [st EXCEPT !.failed = @ + 1]
    ELSE [st EXCEPT !.failed = @ + 1]

\* count_outcome with a failed write folded into not_found
count_outcome_fold(st, truthy, saved) ==
    IF truthy /\ saved
    THEN [st EXCEPT !.successful = @ + 1]
    ELSE [st EXCEPT !.not_found = @ + 1]

\* crawl_tickets, lines 274-280: the counter that one ticket updates
count_outcome(st, truthy, saved) ==
    IF truthy
    THEN IF saved
         THEN [st EXCEPT !.successful = @ + 1]
         ELSE [st EXCEPT !.failed = @ + 1]
    ELSE [st EXCEPT !.not_found = @ + 1]

\* crawl_entry without the early return of line 242
crawl_entry_no_check(authOk, mkdir) ==
    IF mkdir = "error" THEN "raised" ELSE "loop"

\* crawl_tickets, lines 239-251: where the call goes after authentication
crawl_entry(authOk, mkdir) ==
    IF ~authOk THEN "done"
    ELSE IF mkdir = "error" THEN "raised"
    ELSE "loop"

\* range_done for a range that leaves end_id out
range_done_exclusive(n, e) == n >= e

\* crawl_tickets, line 253: range(start_id, end_id + 1) is used up at n
range_done(n, e) == n > e

\* crawl_tickets, lines 263-272: the sleeps after a failed attempt
backoff(d, att, retries) ==
    IF att < retries - 1
    THEN <<[ev |-> "backoff", id |-> "", dur |-> d * (att + 1), ok |-> TRUE]>>
    ELSE <<>>

\* crawl_tickets, line 283
base_sleep(d) == <<[ev |-> "sleep", id |-> "", dur |-> d, ok |-> TRUE]>>

\* ------------------------------------------------------- date normalization
\* A text is the sequence of its characters.
DigitChars == <<"0", "1", "2", "3", "4", "5", "6", "7", "8", "9">>
UpperLetters == <<"A", "B", "C", "D", "E", "F", "G", "H", "I", "J", "K", "L", "M",
                  "N", "O", "P", "Q", "R", "S", "T", "U", "V", "W", "X", "Y", "Z">>
LowerLetters == <<"a", "b", "c", "d", "e", "f", "g", "h", "i", "j", "k", "l", "m",
                  "n", "o", "p", "q", "r", "s", "t", "u", "v", "w", "x", "y", "z">>
CharsOf(seq) == {seq[i] : i \in DOMAIN seq}
Digit == CharsOf(DigitChars)
Letter == CharsOf(UpperLetters) \cup CharsOf(LowerLetters)
Word == Digit \cup Letter \cup {"_"}          \* the regex class \w
Space == {" "}                                \* the regex class \s

\* int() of one digit and of a text of digits
DigitVal(c) == (CHOOSE i \in DOMAIN DigitChars : DigitChars[i] = c) - 1
RECURSIVE int(_)
int(t) ==
    IF t = <<>> THEN 0
    ELSE 10 * int(SubSeq(t, 1, Len(t) - 1)) + DigitVal(t[Len(t)])

\* str.lower()
lower(t) ==
    [i \in DOMAIN t |->
        IF \E k \in DOMAIN UpperLetters : UpperLetters[k] = t[i]
        THEN LowerLetters[CHOOSE k \in DOMAIN UpperLetters : UpperLetters[k] = t[i]]
        ELSE t[i]]

\* "%0<w>d" % n
RECURSIVE Dig(_, _)
Dig(n, w) ==
    IF w = 0 THEN <<>>
    ELSE Dig(n \div 10, w - 1) \o <<DigitChars[(n % 10) + 1]>>

\* str.zfill(2), line 151
zfill2(t) == IF Len(t) < 2 THEN <<"0">> \o t ELSE t

\* calendar: abbreviated names as _strptime.LocaleTime has them (lower case)
a_weekday == << <<"m", "o", "n">>, <<"t", "u", "e">>, <<"w", "e", "d">>,
                <<"t", "h", "u">>, <<"f", "r", "i">>, <<"s", "a", "t">>,
                <<"s", "u", "n">> >>
a_month == << <<"j", "a", "n">>, <<"f", "e", "b">>, <<"m", "a", "r">>,
              <<"a", "p", "r">>, <<"m", "a", "y">>, <<"j", "u", "n">>,
              <<"j", "u", "l">>, <<"a", "u", "g">>, <<"s", "e", "p">>,
              <<"o", "c", "t">>, <<"n", "o", "v">>, <<"d", "e", "c">> >>

\* the keys of month_map, lines 134-147, in the order of their values
month_map_keys == << <<"J", "a", "n">>, <<"F", "e", "b">>, <<"M", "a", "r">>,
                     <<"A", "p", "r">>, <<"M", "a", "y">>, <<"J", "u", "n">>,
                     <<"J", "u", "l">>, <<"A", "u", "g">>, <<"S", "e", "p">>,
                     <<"O", "c", "t">>, <<"N", "o", "v">>, <<"D", "e", "c">> >>

IndexIn(table, t) == CHOOSE k \in DOMAIN table : table[k] = t

\* datetime: days of a month
is_leap(y) == (y % 4 = 0) /\ ((y % 100 # 0) \/ (y % 400 = 0))
days_in_month(y, m) ==
    IF m = 2 THEN (IF is_leap(y) THEN 29 ELSE 28)
    ELSE IF m \in {4, 6, 9, 11} THEN 30 ELSE 31

\* ---- matching a text against a pattern, left to right.  An item of a
\* pattern is a literal character (both patterns are matched ignoring case:
\* _strptime compiles with IGNORECASE, the pattern of line 126 has no letter
\* literal), a run of white space, a greedy run of characters of a class
\* (kept as a field), a sign with four digits, or the rest of the text.
Lit(c) == [k |-> "lit", c |-> c]
Ws == [k |-> "ws"]
Run(class, name) == [k |-> "run", class |-> class, n |-> name]
Sign4(name) == [k |-> "sign4", n |-> name]
Rest(name) == [k |-> "rest", n |-> name]

RECURSIVE RunEnd(_, _, _)
RunEnd(t, pos, class) ==
    IF pos <= Len(t) /\ t[pos] \in class THEN RunEnd(t, pos + 1, class) ELSE pos

NoMatch == [ok |-> FALSE, pos |-> 0, f |-> <<>>]

RECURSIVE Scan(_, _, _, _)
Scan(items, t, pos, acc) ==
    IF items = <<>> THEN [ok |-> TRUE, pos |-> pos, f |-> acc]
    ELSE LET it == Head(items)
             e == IF it.k = "run" THEN RunEnd(t, pos, it.class)
                  ELSE RunEnd(t, pos, Space)
         IN  CASE it.k = "lit" ->
                    IF pos <= Len(t) /\ lower(<<t[pos]>>) = lower(<<it.c>>)
                    THEN Scan(Tail(items), t, pos + 1, acc) ELSE NoMatch
               [] it.k = "ws" ->
                    IF e > pos THEN Scan(Tail(items), t, e, acc) ELSE NoMatch
               [] it.k = "run" ->
                    IF e > pos
                    THEN Scan(Tail(items), t, e, acc @@ (it.n :> SubSeq(t, pos, e - 1)))
                    ELSE NoMatch
               [] it.k = "sign4" ->
                    IF /\ pos + 4 <= Len(t)
                       /\ t[pos] \in {"+", "-"}
                       /\ \A i \in (pos + 1) .. (pos + 4) : t[i] \in Digit
                    THEN Scan(Tail(items), t, pos + 5,
                              acc @@ (it.n :> SubSeq(t, pos, pos + 4)))
                    ELSE NoMatch
               [] it.k = "rest" ->
                    Scan(Tail(items), t, Len(t) + 1,
                         acc @@ (it.n :> SubSeq(t, pos, Len(t))))

\* ---- datetime.strptime.  The directives of a format become items; a
\* blank of the format matches any run of white space.
Colon == Lit(":")
Clock == <<Run(Digit, "H"), Colon, Run(Digit, "M"), Colon, Run(Digit, "S")>>
Ymd == <<Run(Digit, "Y"), Lit("-"), Run(Digit, "m"), Lit("-"), Run(Digit, "d")>>

\* formats_to_try, lines 109-115, in the order of the list
formats_to_try ==
    << <<Run(Letter, "a"), Lit(","), Ws, Run(Digit, "d"), Ws, Run(Letter, "b"), Ws,
         Run(Digit, "Y"), Ws>> \o Clock \o <<Ws, Rest("z")>>,
       Ymd \o <<Lit("T")>> \o Clock \o <<Lit("."), Run(Digit, "f"), Rest("z")>>,
       Ymd \o <<Lit("T")>> \o Clock \o <<Rest("z")>>,
       Ymd \o <<Ws>> \o Clock,
       Ymd \o <<Lit("T")>> \o Clock >>

\* %z: Z, or a sign, two digits, an optional colon and two digits below 60.
\* (Offsets that carry seconds are outside the texts of this model.)
zone_shape(z) ==
    \/ z = <<"Z">>
    \/ /\ Len(z) = 5
       /\ z[1] \in {"+", "-"}
       /\ \A i \in 2 .. 5 : z[i] \in Digit
       /\ DigitVal(z[4]) <= 5
    \/ /\ Len(z) = 6
       /\ z[1] \in {"+", "-"}
       /\ z[4] = ":"
       /\ \A i \in {2, 3, 5, 6} : z[i] \in Digit
       /\ DigitVal(z[5]) <= 5

\* the offset of a %z text in minutes east of UTC
zone_minutes(z) ==
    IF z = <<"Z">> THEN 0
    ELSE LET hh == int(SubSeq(z, 2, 3))
             mm == int(SubSeq(z, Len(z) - 1, Len(z)))
         IN  IF z[1] = "-" THEN 0 - (hh * 60 + mm) ELSE hh * 60 + mm

has_field(f, n) == n \in DOMAIN f

\* the regular expressions of the directives
directives_match(f) ==
    /\ has_field(f, "a") => \E k \in DOMAIN a_weekday : a_weekday[k] = lower(f["a"])
    /\ has_field(f, "b") => \E k \in DOMAIN a_month : a_month[k] = lower(f["b"])
    /\ has_field(f, "m") => Len(f["m"]) <= 2 /\ int(f["m"]) \in 1 .. 12
    /\ Len(f["Y"]) = 4
    /\ Len(f["d"]) <= 2 /\ int(f["d"]) \in 1 .. 31
    /\ Len(f["H"]) <= 2 /\ int(f["H"]) <= 23
    /\ Len(f["M"]) <= 2 /\ int(f["M"]) <= 59
    /\ Len(f["S"]) <= 2 /\ int(f["S"]) <= 61
    /\ has_field(f, "f") => Len(f["f"]) <= 6
    /\ has_field(f, "z") => zone_shape(f["z"])

\* the datetime the fields give
fields_datetime(f) ==
    [year |-> int(f["Y"]),
     month |-> IF has_field(f, "b") THEN IndexIn(a_month, lower(f["b"])) ELSE int(f["m"]),
     day |-> int(f["d"]),
     hour |-> int(f["H"]),
     minute |-> int(f["M"]),
     second |-> int(f["S"]),
     microsecond |-> IF has_field(f, "f")
                     THEN int(f["f"] \o [i \in 1 .. (6 - Len(f["f"])) |-> "0"])
                     ELSE 0,
     aware |-> has_field(f, "z"),
     utcoffset |-> IF has_field(f, "z") THEN zone_minutes(f["z"]) ELSE 0]

\* what the datetime and timezone constructors refuse with ValueError
datetime_ok(dt) ==
    /\ dt.year >= 1
    /\ dt.day <= days_in_month(dt.year, dt.month)
    /\ dt.second <= 59
    /\ dt.utcoffset > 0 - 1440 /\ dt.utcoffset < 1440

\* datetime.strptime(date_text, fmt): ok = FALSE stands for ValueError
strptime(t, fmt) ==
    LET m == Scan(fmt, t, 1, <<>>)
    IN  IF m.ok /\ m.pos = Len(t) + 1 /\ directives_match(m.f)
           /\ datetime_ok(fields_datetime(m.f))
        THEN [ok |-> TRUE, dt |-> fields_datetime(m.f)]
        ELSE [ok |-> FALSE, dt |-> <<>>]

\* The offset written without its colon
utcoffset_text_basic(minutes) ==
    LET a == IF minutes < 0 THEN 0 - minutes ELSE minutes
    IN  <<IF minutes < 0 THEN "-" ELSE "+">> \o Dig(a \div 60, 2) \o Dig(a % 60, 2)

\* datetime.isoformat: the offset part
utcoffset_text(minutes) ==
    LET a == IF minutes < 0 THEN 0 - minutes ELSE minutes
    IN  <<IF minutes < 0 THEN "-" ELSE "+">> \o Dig(a \div 60, 2) \o <<":">>
        \o Dig(a % 60, 2)

\* datetime.isoformat(), line 120
isoformat(dt) ==
    Dig(dt.year, 4) \o <<"-">> \o Dig(dt.month, 2) \o <<"-">> \o Dig(dt.day, 2)
    \o <<"T">> \o Dig(dt.hour, 2) \o <<":">> \o Dig(dt.minute, 2) \o <<":">>
    \o Dig(dt.second, 2)
    \o (IF dt.microsecond # 0 THEN <<".">> \o Dig(dt.microsecond, 6) ELSE <<>>)
    \o (IF dt.aware THEN utcoffset_text(dt.utcoffset) ELSE <<>>)

\* the pattern of line 126
Blank == Lit(" ")
pattern ==
    <<Run(Word, "day_name"), Lit(","), Blank, Run(Digit, "day"), Blank,
      Run(Word, "month_name"), Blank, Run(Digit, "year"), Blank,
      Run(Digit, "hour"), Colon, Run(Digit, "minute"), Colon,
      Run(Digit, "second"), Blank, Sign4("tz")>>

\* month_map.get(month_name, "01"), line 148
month_map_get(month_name) ==
    IF \E k \in DOMAIN month_map_keys : month_map_keys[k] = month_name
    THEN Dig(IndexIn(month_map_keys, month_name), 2)
    ELSE <<"0", "1">>

\* lines 124-152: re.match (anchored at the start only) and the f-string
regex_fallback(t) ==
    LET m == Scan(pattern, t, 1, <<>>)
    IN  IF m.ok
        THEN [ok |-> TRUE,
              text |-> m.f["year"] \o <<"-">> \o month_map_get(m.f["month_name"])
                       \o <<"-">> \o zfill2(m.f["day"]) \o <<"T">>
                       \o zfill2(m.f["hour"]) \o <<":">> \o zfill2(m.f["minute"])
                       \o <<":">> \o zfill2(m.f["second"]) \o m.f["tz"]]
        ELSE [ok |-> FALSE, text |-> <<>>]

\* the for loop of lines 117-122: the first format that parses, 0 if none
first_format(t) ==
    IF \E i \in DOMAIN formats_to_try : strptime(t, formats_to_try[i]).ok
    THEN CHOOSE i \in DOMAIN formats_to_try :
            /\ strptime(t, formats_to_try[i]).ok
            /\ \A j \in 1 .. (i - 1) : ~strptime(t, formats_to_try[j]).ok
    ELSE 0

FormatVia == <<"format1", "format2", "format3", "format4", "format5">>

\* _convert_to_iso8601, lines 94-159
convert_to_iso8601(t) ==
    IF t = <<>> THEN [text |-> <<>>, via |-> "empty"]
    ELSE IF first_format(t) # 0
    THEN [text |-> isoformat(strptime(t, formats_to_try[first_format(t)]).dt),
          via |-> FormatVia[first_format(t)]]
    ELSE IF regex_fallback(t).ok
    THEN [text |-> regex_fallback(t).text, via |-> "regex"]
    ELSE [text |-> t, via |-> "unchanged"]

\* _extract_date, lines 85-92, on the text of the tag ("" when it has none)
extract_date(t) ==
    IF t # <<>> THEN convert_to_iso8601(t) ELSE [text |-> <<>>, via |-> "empty"]

\* ---- the texts a <created>, <updated>, <due> or <resolved> tag can carry
DateTexts ==
    LET Thu == <<"T", "h", "u">>
        Mon == <<"M", "o", "n">>
        Thursday == <<"T", "h", "u", "r", "s", "d", "a", "y">>
        Jun == <<"J", "u", "n">>
        Feb == <<"F", "e", "b">>
        June == <<"J", "u", "n", "e">>
        Plus0700 == <<"+", "0", "7", "0", "0">>
        Minus0330 == <<"-", "0", "3", "3", "0">>
        Minus0000 == <<"-", "0", "0", "0", "0">>
        Plus2500 == <<"+", "2", "5", "0", "0">>
        Plus07Colon00 == <<"+", "0", "7", ":", "0", "0">>
        Zulu == <<"Z">>
        ZoneName == <<" ", "(", "I", "C", "T", ")">>
        Millis000 == <<".", "0", "0", "0">>
        Millis123 == <<".", "1", "2", "3">>

        \* texts laid out as "Thu, 19 Jun 2025 15:01:03 +0700" (lines 104, 125)
        Rfc822Texts ==
            { wd \o <<",", " ">> \o d \o <<" ">> \o mo \o <<" ">> \o y \o <<" ">> \o h
              \o <<":">> \o Dig(1, 2) \o <<":">> \o s \o <<" ">> \o z \o tail :
                wd \in {Thu, Mon, Thursday},
                d \in {Dig(9, 1), Dig(19, 2), Dig(31, 2)},
                mo \in {Jun, lower(Jun), June, Feb},
                y \in {Dig(2025, 4), Dig(25, 2)},
                h \in {Dig(15, 2), Dig(5, 1), Dig(25, 2)},
                s \in {Dig(3, 2), Dig(60, 2)},
                z \in {Plus0700, Minus0330, Minus0000, Plus2500, Plus07Colon00, Zulu},
                tail \in {<<>>, ZoneName} }

        \* texts laid out as "2025-06-19T15:01:03.000+0700" and its shorter forms
        \* (lines 105-106)
        IsoTexts ==
            { y \o <<"-">> \o mo \o <<"-">> \o d \o sep \o h \o <<":">> \o Dig(1, 2)
              \o <<":">> \o s \o frac \o z :
                y \in {Dig(2025, 4), Dig(25, 2)},
                mo \in {Dig(6, 2), Dig(6, 1), Dig(13, 2)},
                d \in {Dig(19, 2), Dig(9, 1), Dig(31, 2)},
                sep \in {<<"T">>, <<" ">>},
                h \in {Dig(15, 2), Dig(5, 1), Dig(25, 2)},
                s \in {Dig(3, 2), Dig(60, 2)},
                frac \in {<<>>, Millis000, Millis123},
                z \in {<<>>, Plus0700, Minus0330, Zulu} }

        \* a date without a time, two blanks after the comma, an empty tag
        OtherTexts ==
            { Dig(2025, 4) \o <<"-">> \o Dig(6, 2) \o <<"-">> \o Dig(19, 2),
              Thu \o <<",", " ", " ">> \o Dig(19, 2) \o <<" ">> \o Jun \o <<" ">>
                \o Dig(2025, 4) \o <<" ">> \o Dig(15, 2) \o <<":">> \o Dig(1, 2)
                \o <<":">> \o Dig(3, 2) \o <<" ">> \o Plus0700,
              <<>> }

    IN  Rfc822Texts \cup IsoTexts \cup OtherTexts

\* ------------------------------------------------------------------ state
Init ==
    /\ authenticated = FALSE
    /\ cookies = {}
    /\ cookie_file \in {NoFile, CorruptFile, [state |-> "ok", jar |-> {"file"}]}
    /\ username = ""
    /\ password = ""
    /\ authLog = <<>>
    /\ flowCount = 0
    /\ ensureCalls = 0
    /\ lastEnsure = FALSE
    /\ calls = 0
    /\ crawls = 0
    /\ pc = "idle"
    /\ end_id = start_id - 1
    /\ delay = 1
    /\ max_retries = 0
    /\ ticket_num = start_id
    /\ attempt = 0
    /\ ticket_data = None
    /\ resps = <<>>
    /\ stats = ZeroStats
    /\ log = <<>>
    /\ files = {}
    /\ raisedBy = ""
    /\ date_text = <<>>
    /\ date_out = <<>>
    /\ date_via = ""
    /\ dateRestIdle

\* runner.main, line 41: a direct call of scraper.ensure_authenticated
EnsureAuthenticated ==
    /\ pc = "idle"
    /\ calls < MaxCalls
    /\ calls' = calls + 1
    /\ \E env \in AuthEnvs : ensure_authenticated(env)
    /\ UNCHANGED <<crawlVars, crawls, sideVars>>

\* scraper.reset_authentication
ResetAuthentication ==
    /\ pc = "idle"
    /\ calls < MaxCalls
    /\ calls' = calls + 1
    /\ authenticated' = FALSE
    /\ UNCHANGED <<cookies, cookie_file, username, password, authLog,
                   flowCount, ensureCalls, lastEnsure>>
    /\ UNCHANGED <<crawlVars, crawls, sideVars>>

\* crawl_tickets, lines 239-251: authenticate, zero the stats, make output_dir
CrawlTickets ==
    /\ pc = "idle"
    /\ calls < MaxCalls
    /\ crawls < MaxCrawls
    /\ calls' = calls + 1
    /\ crawls' = crawls + 1
    /\ \E env \in AuthEnvs : ensure_authenticated(env)
    /\ \E e \in (start_id - 2) .. (start_id + MaxRange - 1),
          d \in 1 .. MaxDelay,
          m \in 0 .. MaxRetriesBound :
            /\ end_id' = e
            /\ delay' = d
            /\ max_retries' = m
    /\ \E mkdir \in {"ok", "error"} :
            /\ pc' = crawl_entry(lastEnsure', mkdir)
            /\ raisedBy' = IF pc' = "raised" THEN "makedirs" ELSE ""
    /\ stats' = ZeroStats
    /\ log' = <<>>
    /\ ticket_num' = start_id
    /\ attempt' = 0
    /\ ticket_data' = None
    /\ resps' = <<>>
    /\ UNCHANGED <<files, sideVars>>

\* crawl_tickets, lines 253-258: next ticket of the range, or lines 285-286
LoopHead ==
    /\ pc = "loop"
    /\ IF range_done(ticket_num, end_id)
       THEN /\ pc' = "done"
            /\ UNCHANGED <<stats, ticket_data, attempt, resps>>
       ELSE /\ stats' = [stats EXCEPT !.total_attempted = @ + 1]
            /\ ticket_data' = None
            /\ attempt' = 0
            /\ resps' = <<>>
            /\ pc' = "retry"
    /\ UNCHANGED <<end_id, delay, max_retries, ticket_num, log, files, raisedBy>>
    /\ UNCHANGED <<authVars, calls, crawls, sideVars>>

\* Attempt with a liveness probe of the session before the GET
AttemptAfterProbe ==
    /\ pc = "retry"
    /\ attempt < max_retries
    /\ \E resp \in ResponsesFor(TicketId(project_key, ticket_num)) :
         LET tid == TicketId(project_key, ticket_num)
             r == get_ticket_data(tid, resp)
             get == <<[ev |-> "get", id |-> tid, dur |-> 0, ok |-> TRUE]>>
         IN  /\ resps' = Append(resps, resp)
             /\ log' = log \o get
             /\ ticket_data' = r.value
             /\ pc' = "classify"
             /\ UNCHANGED attempt
    /\ authLog' = Append(authLog, "probe_ok")
    /\ UNCHANGED <<end_id, delay, max_retries, ticket_num, stats, files, raisedBy>>
    /\ UNCHANGED <<authenticated, cookies, cookie_file, username, password,
                   flowCount, ensureCalls, lastEnsure, calls, crawls, sideVars>>

\* crawl_tickets, lines 259-272: one attempt of the retry loop
Attempt ==
    /\ pc = "retry"
    /\ attempt < max_retries
    /\ \E resp \in ResponsesFor(TicketId(project_key, ticket_num)) :
         LET tid == TicketId(project_key, ticket_num)
             r == get_ticket_data(tid, resp)
             get == <<[ev |-> "get", id |-> tid, dur |-> 0, ok |-> TRUE]>>
         IN  /\ resps' = Append(resps, resp)
             /\ IF r.raised
                THEN /\ log' = log \o get \o backoff(delay, attempt, max_retries)
                     /\ attempt' = attempt + 1
                     /\ UNCHANGED <<ticket_data, pc>>
                ELSE /\ log' = log \o get
                     /\ ticket_data' = r.value
                     /\ pc' = "classify"
                     /\ UNCHANGED attempt
    /\ UNCHANGED <<end_id, delay, max_retries, ticket_num, stats, files, raisedBy>>
    /\ UNCHANGED <<authVars, calls, crawls, sideVars>>

\* crawl_tickets, line 259: range(max_retries) is used up
RetriesExhausted ==
    /\ pc = "retry"
    /\ attempt >= max_retries
    /\ pc' = "classify"
    /\ UNCHANGED <<end_id, delay, max_retries, ticket_num, attempt, ticket_data,
                   resps, stats, log, files, raisedBy>>
    /\ UNCHANGED <<authVars, calls, crawls, sideVars>>

\* crawl_tickets, lines 274-280: write the record and count the ticket
Classify ==
    /\ pc = "classify"
    /\ \E write \in WriteKinds :
         LET s == save_ticket(ticket_data, files, write)
             w == <<[ev |-> "save", id |-> ticket_data.id, dur |-> 0, ok |-> s.result]>>
         IN  IF Truthy(ticket_data)
             THEN /\ files' = s.files
                  /\ log' = log \o w
                  /\ IF s.raised
                     THEN /\ pc' = "raised"
                          /\ raisedBy' = "save_ticket"
                          /\ UNCHANGED stats
                     ELSE /\ pc' = "sleep"
                          /\ stats' = count_outcome(stats, TRUE, s.result)
                          /\ UNCHANGED raisedBy
             ELSE /\ stats' = count_outcome(stats, FALSE, FALSE)
                  /\ pc' = "sleep"
                  /\ UNCHANGED <<files, log, raisedBy>>
    /\ UNCHANGED <<end_id, delay, max_retries, ticket_num, attempt, ticket_data, resps>>
    /\ UNCHANGED <<authVars, calls, crawls, sideVars>>

\* Sleep with the delay skipped (a continue) when the ticket gave no record
SleepOnlyAfterRecord ==
    /\ pc = "sleep"
    /\ log' = IF Truthy(ticket_data) THEN log \o base_sleep(delay) ELSE log
    /\ ticket_num' = ticket_num + 1
    /\ pc' = "loop"
    /\ UNCHANGED <<end_id, delay, max_retries, attempt, ticket_data, resps,
                   stats, files, raisedBy>>
    /\ UNCHANGED <<authVars, calls, crawls, sideVars>>

\* crawl_tickets, line 283: the delay between tickets
Sleep ==
    /\ pc = "sleep"
    /\ log' = log \o base_sleep(delay)
    /\ ticket_num' = ticket_num + 1
    /\ pc' = "loop"
    /\ UNCHANGED <<end_id, delay, max_retries, attempt, ticket_data, resps,
                   stats, files, raisedBy>>
    /\ UNCHANGED <<authVars, calls, crawls, sideVars>>

\* crawl_tickets, lines 242 and 286: the caller has the stats and the locals
\* of the call are gone
Return ==
    /\ pc = "done"
    /\ pc' = "idle"
    /\ ticket_num' = start_id
    /\ attempt' = 0
    /\ ticket_data' = None
    /\ resps' = <<>>
    /\ log' = <<>>
    /\ stats' = ZeroStats
    /\ end_id' = start_id - 1
    /\ delay' = 1
    /\ max_retries' = 0
    /\ UNCHANGED <<files, raisedBy>>
    /\ UNCHANGED <<authVars, calls, crawls, sideVars>>

Next ==
    \/ EnsureAuthenticated
    \/ ResetAuthentication
    \/ CrawlTickets
    \/ LoopHead
    \/ Attempt
    \/ RetriesExhausted
    \/ Classify
    \/ Sleep
    \/ Return

Spec == Init /\ [][Next]_vars

\* ------------------------------------------------------- date extraction
\* An extractor and the text of one date tag of a document
DateInit ==
    /\ date_text \in DateTexts
    /\ date_out = <<>>
    /\ date_via = ""
    /\ authenticated = FALSE
    /\ cookies = {}
    /\ cookie_file = NoFile
    /\ username = ""
    /\ password = ""
    /\ authLog = <<>>
    /\ flowCount = 0
    /\ ensureCalls = 0
    /\ lastEnsure = FALSE
    /\ calls = 0
    /\ crawls = 0
    /\ pc = "idle"
    /\ end_id = start_id - 1
    /\ delay = 1
    /\ max_retries = 0
    /\ ticket_num = start_id
    /\ attempt = 0
    /\ ticket_data = None
    /\ resps = <<>>
    /\ stats = ZeroStats
    /\ log = <<>>
    /\ files = {}
    /\ raisedBy = ""
    /\ dateRestIdle

\* _extract_date on that tag, lines 85-92
ExtractDate ==
    /\ date_via = ""
    /\ date_out' = extract_date(date_text).text
    /\ date_via' = extract_date(date_text).via
    /\ UNCHANGED <<date_text, dateRest>>

DateNext == ExtractDate

DateSpec == DateInit /\ [][DateNext]_vars

\* ------------------------------------------------------------- chunk_text
\* the scraper before any call, as DateInit has it
ScraperIdle ==
    /\ authenticated = FALSE
    /\ cookies = {}
    /\ cookie_file = NoFile
    /\ username = ""
    /\ password = ""
    /\ authLog = <<>>
    /\ flowCount = 0
    /\ ensureCalls = 0
    /\ lastEnsure = FALSE
    /\ calls = 0
    /\ crawls = 0
    /\ pc = "idle"
    /\ end_id = start_id - 1
    /\ delay = 1
    /\ max_retries = 0
    /\ ticket_num = start_id
    /\ attempt = 0
    /\ ticket_data = None
    /\ resps = <<>>
    /\ stats = ZeroStats
    /\ log = <<>>
    /\ files = {}
    /\ raisedBy = ""

\* the texts of at most n characters over a letter and a blank
RECURSIVE TextsUpTo(_)
TextsUpTo(n) ==
    IF n = 0 THEN {<<>>}
    ELSE TextsUpTo(n - 1)
         \cup {Append(t, c) : t \in {u \in TextsUpTo(n - 1) : Len(u) = n - 1},
                              c \in {"a", " "}}

\* text[a:b] of Python: negative indexes count from the end, all are clamped
py_index(n, i) == IF i < 0 THEN (IF i + n < 0 THEN 0 ELSE i + n)
                  ELSE IF i > n THEN n ELSE i
py_slice(t, a, b) == SubSeq(t, py_index(Len(t), a) + 1, py_index(Len(t), b))

\* str.strip()
RECURSIVE strip(_)
strip(t) ==
    IF t = <<>> THEN t
    ELSE IF Head(t) \in Space THEN strip(Tail(t))
    ELSE IF t[Len(t)] \in Space THEN strip(SubSeq(t, 1, Len(t) - 1))
    ELSE t

\* line 13: the stripped chunks that are not empty
RECURSIVE stripped_nonempty(_)
stripped_nonempty(cs) ==
    IF cs = <<>> THEN <<>>
    ELSE (IF strip(Head(cs)) # <<>> THEN <<strip(Head(cs))>> ELSE <<>>)
         \o stripped_nonempty(Tail(cs))

\* chunk_text is called: lines 4-8
ChunkInit ==
    /\ ScraperIdle
    /\ chunkRestIdle
    /\ ch_text \in TextsUpTo(MaxTextLen)
    /\ ch_max_tokens \in 1 .. MaxTokens
    /\ ch_overlap \in 0 .. MaxOverlap
    /\ ch_start = 0
    /\ ch_chunks = <<>>
    /\ ch_result = <<>>
    /\ ch_pc = "loop"

\* lines 9-12: one iteration of the while loop
ChunkLoop ==
    /\ ch_pc = "loop"
    /\ ch_start < Len(ch_text)
    /\ Len(ch_chunks) < MaxChunks
    /\ ch_chunks' = Append(ch_chunks, py_slice(ch_text, ch_start, ch_start + ch_max_tokens))
    /\ ch_start' = ch_start + (ch_max_tokens - ch_overlap)
    /\ UNCHANGED <<ch_text, ch_max_tokens, ch_overlap, ch_result, ch_pc, chunkRest>>

\* lines 9 and 13: the loop is left and the chunks are returned
ChunkReturn ==
    /\ ch_pc = "loop"
    /\ ~(ch_start < Len(ch_text))
    /\ ch_result' = stripped_nonempty(ch_chunks)
    /\ ch_pc' = "done"
    /\ UNCHANGED <<ch_text, ch_max_tokens, ch_overlap, ch_start, ch_chunks, chunkRest>>

ChunkNext == ChunkLoop \/ ChunkReturn

ChunkSpec == ChunkInit /\ [][ChunkNext]_vars

\* ---------------------------------------------------------- format_for_rag
\* section names an entry of related_tickets can carry: the default of
\* _get_section_name, a link type name, and its lower-case spelling
RelatedIssues == <<"R", "e", "l", "a", "t", "e", "d", " ", "I", "s", "s", "u", "e", "s">>
Blocks == <<"B", "l", "o", "c", "k", "s">>
SectionNames == {RelatedIssues, Blocks, lower(Blocks)}

\* the entries of related_tickets: _extract_issue_links, lines 313-323
RelatedEntries ==
    {[id |-> TicketId(project_key, n), section_name |-> sn] :
        n \in 2 .. 3, sn \in SectionNames}

RECURSIVE ListsUpTo(_, _)
ListsUpTo(S, n) ==
    IF n = 0 THEN {<<>>}
    ELSE ListsUpTo(S, n - 1)
         \cup {Append(l, x) : l \in {u \in ListsUpTo(S, n - 1) : Len(u) = n - 1},
                              x \in S}

\* sections[key] = value on a dict
dict_set(dict, key, value) ==
    [k \in DOMAIN dict \cup {key} |-> IF k = key THEN value ELSE dict[k]]

\* lines 168-171: one iteration of the loop over related_tickets
group_step(sections, related) ==
    LET section_name == related.section_name
        s1 == IF section_name \notin DOMAIN sections
              THEN dict_set(sections, lower(section_name), <<>>)
              ELSE sections
    IN  dict_set(s1, lower(section_name), Append(s1[lower(section_name)], related))

\* lines 166-173: the loop, from the dict the entries before have left
RECURSIVE group_related(_, _)
group_related(related_tickets, sections) ==
    IF related_tickets = <<>> THEN sections
    ELSE group_related(Tail(related_tickets), group_step(sections, Head(related_tickets)))

\* format_for_rag is called with a record
FormatInit ==
    /\ ScraperIdle
    /\ formatRestIdle
    /\ fmt_related \in ListsUpTo(RelatedEntries, MaxRelated)
    /\ fmt_sections = <<>>
    /\ fmt_pc = "called"

\* format_for_rag, lines 164-173
FormatForRag ==
    /\ fmt_pc = "called"
    /\ fmt_sections' = IF fmt_related # <<>> THEN group_related(fmt_related, <<>>)
                       ELSE <<>>
    /\ fmt_pc' = "done"
    /\ UNCHANGED <<fmt_related, formatRest>>

FormatNext == FormatForRag

FormatSpec == FormatInit /\ [][FormatNext]_vars

\* ------------------------------------------------------ _extract_issue_links
\* the keys of the linked issues
LinkKeys == {"SL-2"}

\* An <inwardlinks> or <outwardlinks> element: its description attribute ("" if
\* it has none) and the texts of its <issuelink> elements
NoLinks == [present |-> FALSE, description |-> "", keys |-> <<>>]
LinkLists ==
    {NoLinks}
    \cup {[present |-> TRUE, description |-> dsc, keys |-> ks] :
            dsc \in {"", "is blocked by"},
            ks \in ListsUpTo(LinkKeys, MaxLinks)}

\* An <issuelinktype> element: its <name> ("" if it has none) and its two
\* directions
LinkTypes ==
    [name : {"", "Blocks"}, inward : LinkLists, outward : LinkLists]

\* the <issuelinks> element of an issue, if it has one
IssueLinks ==
    {[present |-> FALSE, blocks |-> <<>>]}
    \cup {[present |-> TRUE, blocks |-> bs] : bs \in ListsUpTo(LinkTypes, MaxLinkTypes)}

\* the part of a link type for a direction
Side(link_type, direction) ==
    IF direction = "inward" THEN link_type.inward ELSE link_type.outward

\* issuelinks.find("inwardlinks"): the first element of that name in the
\* document order, 0 if there is none
find_links(blocks, direction) ==
    IF \E i \in DOMAIN blocks : Side(blocks[i], direction).present
    THEN CHOOSE i \in DOMAIN blocks :
            /\ Side(blocks[i], direction).present
            /\ \A j \in 1 .. (i - 1) : ~Side(blocks[j], direction).present
    ELSE 0

\* _get_section_name, lines 353-373
get_section_name(blocks, direction) ==
    LET named == {i \in DOMAIN blocks :
                    Side(blocks[i], direction).present /\ blocks[i].name # ""}
    IN  IF named = {} THEN "Related Issues"
        ELSE blocks[CHOOSE i \in named : \A j \in named : i <= j].name

\* lines 311-323 and 332-345: the entries of the issuelink elements
RECURSIVE link_entries(_, _, _)
link_entries(keys, relationship, section_name) ==
    IF keys = <<>> THEN <<>>
    ELSE (IF Head(keys) # ""
          THEN <<[id |-> Head(keys), relationship |-> relationship,
                  section_name |-> section_name]>>
          ELSE <<>>)
         \o link_entries(Tail(keys), relationship, section_name)

\* lines 305-323 and 326-345: one direction
direction_entries(blocks, direction) ==
    LET i == find_links(blocks, direction)
        links == Side(blocks[i], direction)
        relationship == IF links.description = "" THEN "relates to"
                        ELSE links.description
    IN  IF i = 0 THEN <<>>
        ELSE link_entries(links.keys, relationship,
                          get_section_name(blocks, direction))

\* _extract_issue_links, lines 297-351
extract_issue_links(doc) ==
    IF ~doc.present THEN <<>>
    ELSE direction_entries(doc.blocks, "inward")
         \o direction_entries(doc.blocks, "outward")

\* an issue is given to _extract_issue_links
LinkInit ==
    /\ ScraperIdle
    /\ linkRestIdle
    /\ link_doc \in IssueLinks
    /\ link_out = <<>>
    /\ link_pc = "called"

\* _extract_issue_links, lines 297-351
ExtractIssueLinks ==
    /\ link_pc = "called"
    /\ link_out' = extract_issue_links(link_doc)
    /\ link_pc' = "done"
    /\ UNCHANGED <<link_doc, linkRest>>

LinkNext == ExtractIssueLinks

LinkSpec == LinkInit /\ [][LinkNext]_vars

\* ------------------------------------------------------ _clean_html_for_rag
\* pieces of the text of an element: a letter, a blank, the tags of a bold
\* run and of a line break, and the tags of a bold run written with entities
Newline == "\n"
White == {" ", Newline}
TagB == <<"<", "b", ">">>
TagBEnd == <<"<", "/", "b", ">">>
TagBr == <<"<", "b", "r", "/", ">">>
EntLt == <<"&", "l", "t", ";">>
EntGt == <<"&", "g", "t", ";">>
Stars == <<"*", "*">>
Pieces == {<<"a">>, <<" ">>, TagB, TagBEnd, TagBr,
           EntLt \o <<"b">> \o EntGt, EntLt \o <<"/", "b">> \o EntGt}

RECURSIVE Flatten(_)
Flatten(ps) == IF ps = <<>> THEN <<>> ELSE Head(ps) \o Flatten(Tail(ps))

\* the texts an element of the export can carry
ElementTexts == {Flatten(ps) : ps \in ListsUpTo(Pieces, MaxPieces)}

\* the tags read with _extract_text, lines 39-50
PlainFields == {"key", "summary", "type", "status", "priority", "assignee",
                "reporter", "resolution"}
RichFields == {"description", "environment"}

\* the text has p at position i
At(t, i, p) == i + Len(p) - 1 <= Len(t) /\ SubSeq(t, i, i + Len(p) - 1) = p

\* lines 169, 187-190, 205-207 and 242: the text of the parsed document after
\* the bold elements and the line breaks are replaced.  depth counts the open
\* <b> elements: the outermost is replaced by its text between two pairs of
\* asterisks, tags inside it are lost with it, an end tag without a start
\* tag is dropped, an element left open ends with the text, an entity is the
\* character it names.
RECURSIVE soup_text(_, _, _)
soup_text(t, i, depth) ==
    IF i > Len(t) THEN (IF depth > 0 THEN Stars ELSE <<>>)
    ELSE IF At(t, i, TagB)
    THEN (IF depth = 0 THEN Stars ELSE <<>>) \o soup_text(t, i + 3, depth + 1)
    ELSE IF At(t, i, TagBEnd)
    THEN (IF depth = 1 THEN Stars ELSE <<>>)
         \o soup_text(t, i + 4, IF depth > 0 THEN depth - 1 ELSE 0)
    ELSE IF At(t, i, TagBr)
    THEN (IF depth = 0 THEN <<Newline>> ELSE <<>>) \o soup_text(t, i + 5, depth)
    ELSE IF At(t, i, EntLt) THEN <<"<">> \o soup_text(t, i + 4, depth)
    ELSE IF At(t, i, EntGt) THEN <<">">> \o soup_text(t, i + 4, depth)
    ELSE <<t[i]>> \o soup_text(t, i + 1, depth)

\* the last newline of the run of white space that starts at i
RECURSIVE LastNewline(_, _, _)
LastNewline(t, i, e) ==
    IF e < i THEN 0 ELSE IF t[e] = Newline THEN e ELSE LastNewline(t, i, e - 1)

\* line 245: re.sub(r"\n\s*\n\s*\n", "\n\n", result)
RECURSIVE sub_newlines(_, _)
sub_newlines(t, i) ==
    IF i > Len(t) THEN <<>>
    ELSE LET e == RunEnd(t, i, White) - 1
             n == Cardinality({k \in i .. e : t[k] = Newline})
         IN  IF t[i] = Newline /\ n >= 3
             THEN <<Newline, Newline>> \o sub_newlines(t, LastNewline(t, i, e) + 1)
             ELSE <<t[i]>> \o sub_newlines(t, i + 1)

\* line 246: re.sub(r"[ \t]+", " ", result)
RECURSIVE sub_blanks(_, _)
sub_blanks(t, i) ==
    IF i > Len(t) THEN <<>>
    ELSE IF t[i] = " " THEN <<" ">> \o sub_blanks(t, RunEnd(t, i, {" "}))
    ELSE <<t[i]>> \o sub_blanks(t, i + 1)

\* line 247: re.sub(r"\n ", "\n", result)
RECURSIVE sub_leading(_, _)
sub_leading(t, i) ==
    IF i > Len(t) THEN <<>>
    ELSE IF t[i] = Newline /\ i < Len(t) /\ t[i + 1] = " "
    THEN <<Newline>> \o sub_leading(t, i + 2)
    ELSE <<t[i]>> \o sub_leading(t, i + 1)

\* str.strip() and get_text(strip=True) of a single string
RECURSIVE strip_white(_)
strip_white(t) ==
    IF t = <<>> THEN t
    ELSE IF Head(t) \in White THEN strip_white(Tail(t))
    ELSE IF t[Len(t)] \in White THEN strip_white(SubSeq(t, 1, Len(t) - 1))
    ELSE t

\* _clean_html_for_rag, lines 161-252, on the characters of a text
clean_html_chars(t) ==
    IF t = <<>> THEN <<>>
    ELSE strip_white(sub_leading(sub_blanks(sub_newlines(soup_text(t, 1, 0), 1), 1), 1))

\* _extract_text, lines 77-83, on the text of the tag
extract_text_chars(t) == clean_html_chars(strip_white(t))

\* a document with one tag is given to _extract_text
CleanInit ==
    /\ ScraperIdle
    /\ cleanRestIdle
    /\ clean_field \in PlainFields \cup RichFields
    /\ clean_text \in ElementTexts
    /\ clean_out = <<>>
    /\ clean_again = <<>>
    /\ clean_pc = "called"

\* _extract_text, lines 77-83
ExtractText ==
    /\ clean_pc = "called"
    /\ clean_out' = extract_text_chars(clean_text)
    /\ clean_pc' = "extracted"
    /\ UNCHANGED <<clean_field, clean_text, clean_again, cleanRest>>

\* _clean_html_for_rag on a text it has returned
CleanAgain ==
    /\ clean_pc = "extracted"
    /\ clean_again' = clean_html_chars(clean_out)
    /\ clean_pc' = "recleaned"
    /\ UNCHANGED <<clean_field, clean_text, clean_out, cleanRest>>

CleanNext == ExtractText \/ CleanAgain

CleanSpec == CleanInit /\ [][CleanNext]_vars

TypeOK ==
    /\ authenticated \in BOOLEAN
    /\ pc \in {"idle", "loop", "retry", "classify", "sleep", "done", "raised"}
    /\ calls \in 0 .. MaxCalls
    /\ attempt \in 0 .. MaxRetriesBound

\* ----------------------------------------------------------------- claims
Last(seq) == seq[Len(seq)]

Counted(st) == st.successful + st.failed + st.not_found

NumEv(kind) == Cardinality({i \in DOMAIN log : log[i].ev = kind})

InRun == pc \in {"loop", "retry", "classify", "sleep"}

\* the step that enters crawl_tickets
Enters == pc = "idle" /\ pc' # "idle"

\* the step that counts the current ticket
Counts == pc = "classify" /\ pc' = "sleep"

NotFoundResp == [kind |-> "not_found", hasItem |-> FALSE, key |-> ""]

\* C1: at the end of every loop iteration and at the return of crawl_tickets,
\* total_attempted = successful + failed + not_found, for every range,
\* max_retries and mix of ticket outcomes.
C1_StatsBalance ==
    pc \in {"loop", "sleep", "done"} => stats.total_attempted = Counted(stats)

\* a run over two tickets returns, one with a failed write, one not found
C1_Witness ==
    /\ pc = "done"
    /\ stats.total_attempted = 2
    /\ stats.failed = 1
    /\ stats.not_found = 1

\* C2: a transient failure of attempt k < max_retries is followed by another
\* fetch of the same ID, so the attempts for an ID only stop at a success, a
\* 404 or after max_retries attempts.
C2_RetryUntilBound ==
    (pc = "classify" /\ resps # <<>> /\ Transient(Last(resps)))
        => Len(resps) = max_retries

\* C3: a ticket whose attempts all failed transiently is counted once in
\* failed and not in not_found.
C3_TransientCountsFailed ==
    [][(Counts /\ resps # <<>> /\ \A i \in DOMAIN resps : Transient(resps[i]))
         => /\ stats'.failed = stats.failed + 1
            /\ stats'.not_found = stats.not_found]_vars

\* C4: on a 404 get_ticket_data returns None and the crawl counts the ticket
\* once in not_found and leaves successful and failed alone; a run over that
\* single ID returns {1, 0, 0, 1}.
C4_NotFoundCounted ==
    /\ [](  (pc \in {"classify", "sleep"} /\ resps # <<>>
                /\ Last(resps).kind = "not_found")
            => ticket_data = None)
    /\ [](  (pc = "done" /\ end_id = start_id /\ resps = <<NotFoundResp>>)
            => stats = [total_attempted |-> 1, successful |-> 0,
                        failed |-> 0, not_found |-> 1])
    /\ [][(Counts /\ resps # <<>> /\ Last(resps).kind = "not_found")
            => /\ stats'.not_found = stats.not_found + 1
               /\ stats'.successful = stats.successful
               /\ stats'.failed = stats.failed]_vars

\* a run over the single ID SL-1, which the tracker answers with 404, returns
C4_Witness ==
    /\ pc = "done"
    /\ end_id = start_id
    /\ resps = <<NotFoundResp>>
    /\ stats.not_found = 1

\* C5: crawl_tickets calls ensure_authenticated once, on entry and never
\* again; when that call returns False the run returns all-zero stats with no
\* fetch, no write and no sleep.
C5_AuthOnceThenAbort ==
    [][/\ Enters => /\ ensureCalls' = ensureCalls + 1
                    /\ (~lastEnsure' => /\ pc' = "done"
                                        /\ stats' = ZeroStats
                                        /\ log' = <<>>
                                        /\ files' = files)
       /\ (pc \notin {"idle"}) => /\ ensureCalls' = ensureCalls
                                  /\ (~lastEnsure /\ pc' # "idle"
                                        => /\ stats' = ZeroStats
                                           /\ log' = <<>>
                                           /\ files' = files)]_vars

\* a crawl of a non-empty range has returned after a failed authentication
C5_Witness ==
    /\ pc = "done"
    /\ ~lastEnsure
    /\ end_id >= start_id
    /\ flowCount >= 1

\* C6 as stated: over any number of ensure_authenticated calls on one scraper,
\* whatever they returned, the authenticator's flow runs at most once.
C6_FlowAtMostOnce == flowCount <= 1

\* C6 as amended: a call made while the flag is set (a previous call returned
\* True and the flag was not reset since) returns True and runs no part of
\* the authenticator's flow.
C6_SuccessIsCached ==
    [][(authenticated /\ ensureCalls' = ensureCalls + 1)
         => /\ flowCount' = flowCount
            /\ authLog' = authLog
            /\ cookies' = cookies
            /\ cookie_file' = cookie_file
            /\ lastEnsure'
            /\ authenticated']_vars

\* two calls were made, the first succeeded and the flow ran once
C6_Witness ==
    /\ ensureCalls = 2
    /\ flowCount = 1
    /\ authenticated
    /\ lastEnsure

\* C7: a ticket whose fetch and extraction succeeded is handed to save_ticket
\* exactly once; a successful save adds one to successful, a failed save one
\* to failed, and not_found is left alone.
C7_WriteOutcomeCounted ==
    [][(Counts /\ resps # <<>> /\ Last(resps).kind = "ok")
         => /\ Len(log') = Len(log) + 1
            /\ SubSeq(log', 1, Len(log)) = log
            /\ Last(log').ev = "save"
            /\ Last(log').id = ticket_data.id
            /\ stats'.not_found = stats.not_found
            /\ IF Last(log').ok
               THEN /\ stats'.successful = stats.successful + 1
                    /\ stats'.failed = stats.failed
               ELSE /\ stats'.successful = stats.successful
                    /\ stats'.failed = stats.failed + 1]_vars

\* a fetched ticket whose write failed has been counted in failed
C7_Witness ==
    /\ pc = "sleep"
    /\ resps # <<>>
    /\ Last(resps).kind = "ok"
    /\ log # <<>>
    /\ Last(log).ev = "save"
    /\ ~Last(log).ok
    /\ stats.failed = 1

\* the tickets of the range that are not yet done, the current one included
Remaining == IF ticket_num > end_id THEN 0 ELSE end_id - ticket_num + 1

\* a bound on the steps crawl_tickets still takes: it falls with every step
Measure ==
    LET W == max_retries + 4
    IN  CASE pc = "loop" -> Remaining * W + 1
          [] pc = "retry" -> (Remaining - 1) * W + 4 + (max_retries - attempt)
          [] pc = "classify" -> (Remaining - 1) * W + 3
          [] pc = "sleep" -> (Remaining - 1) * W + 2
          [] OTHER -> 0

RangeLen == IF end_id < start_id THEN 0 ELSE end_id - start_id + 1

\* C8: no error of a single ticket leaves crawl_tickets: after a successful
\* authentication (and the creation of output_dir) every step of the run can
\* be taken, brings the run nearer to its end and raises nothing, and the run
\* returns stats that cover every ID of the range.
C8_NoTicketErrorEscapes ==
    /\ [](raisedBy \in {"", "makedirs"})
    /\ [](InRun => (ENABLED Next /\ Measure > 0))
    /\ [](pc = "done" /\ lastEnsure => stats.total_attempted = RangeLen)
    /\ [][InRun => (Measure' < Measure /\ pc' # "raised")]_vars

\* a run over two tickets has returned although one write failed and one
\* fetch met a transient error
C8_Witness ==
    /\ pc = "done"
    /\ stats.total_attempted = 2
    /\ stats.failed = 1
    /\ resps # <<>>
    /\ Transient(Last(resps))

\* the events of the current ticket: those after the last base-delay sleep
LastSleep ==
    IF \E i \in DOMAIN log : log[i].ev = "sleep"
    THEN CHOOSE i \in DOMAIN log :
            /\ log[i].ev = "sleep"
            /\ \A j \in DOMAIN log : log[j].ev = "sleep" => j <= i
    ELSE 0

CurEvents == SubSeq(log, LastSleep + 1, Len(log))

\* C9: a 404 ends the attempts for its ticket: one GET is issued for the ID
\* and no backoff sleep, for every max_retries >= 1.
C9_NotFoundTerminal ==
    (pc \in {"retry", "classify", "sleep"} /\ resps # <<>>
        /\ resps[1].kind = "not_found")
    => /\ pc # "retry"
       /\ Len(resps) = 1
       /\ \A i \in DOMAIN CurEvents : CurEvents[i].ev # "backoff"
       /\ Cardinality({i \in DOMAIN log :
                         /\ log[i].ev = "get"
                         /\ log[i].id = TicketId(project_key, ticket_num)}) = 1

\* a ticket answered with 404 has been counted under max_retries = 2
C9_Witness ==
    /\ pc = "sleep"
    /\ max_retries = 2
    /\ resps = <<NotFoundResp>>
    /\ stats.not_found >= 1

SleepsUpTo(i) == Cardinality({j \in 1 .. i : log[j].ev = "sleep"})

NumOf(id) == CHOOSE n \in TicketNums : TicketId(project_key, n) = id

\* C10: crawl_tickets sleeps the base delay once per ticket, after the ticket
\* is counted and before the first fetch of the next ticket, so a finished
\* run has slept total_attempted times.
C10_OneBaseSleepPerTicket ==
    /\ [](pc \in {"retry", "classify", "sleep"}
            => NumEv("sleep") = stats.total_attempted - 1)
    /\ [](pc \in {"loop", "done"} => NumEv("sleep") = stats.total_attempted)
    /\ [](\A i \in DOMAIN log : log[i].ev = "sleep" => log[i].dur = delay)
    /\ [](\A i, j \in DOMAIN log :
            (log[i].ev = "sleep" /\ log[j].ev = "get")
            => ((j < i) <=> (NumOf(log[j].id) - start_id + 1 <= SleepsUpTo(i))))
    /\ [][(pc = "sleep")
            => /\ stats.total_attempted = Counted(stats)
               /\ log' = Append(log, [ev |-> "sleep", id |-> "", dur |-> delay,
                                      ok |-> TRUE])]_vars

\* a run over two tickets, the first not found, has returned after two sleeps
C10_Witness ==
    /\ pc = "done"
    /\ stats.total_attempted = 2
    /\ stats.not_found >= 1
    /\ stats.successful >= 1
    /\ NumEv("sleep") = 2

NoItemResp == [kind |-> "ok", hasItem |-> FALSE, key |-> ""]

GetIndexes == {i \in DOMAIN log : log[i].ev = "get"}

\* C11: after a successful authentication crawl_tickets takes the IDs
\* start_id, start_id + 1, ..., end_id one after the other, each once, so
\* total_attempted = max(0, end_id - start_id + 1) and an empty range gives
\* all-zero stats.
C11_RangeInOrder ==
    /\ [](pc = "loop" => ticket_num = start_id + stats.total_attempted)
    /\ [](pc \in {"retry", "classify", "sleep"}
            => /\ ticket_num = start_id + stats.total_attempted - 1
               /\ ticket_num <= end_id)
    /\ [](\A i, j \in GetIndexes :
            /\ NumOf(log[i].id) \in start_id .. end_id
            /\ (i < j => NumOf(log[i].id) < NumOf(log[j].id)))
    /\ [](pc = "done" /\ lastEnsure => stats.total_attempted = RangeLen)
    /\ [](pc = "done" /\ lastEnsure /\ end_id < start_id
            => (stats = ZeroStats /\ log = <<>>))

\* a run over SL-1..SL-2 has returned with both IDs fetched
C11_Witness ==
    /\ pc = "done"
    /\ lastEnsure
    /\ end_id = start_id + 1
    /\ stats.total_attempted = 2
    /\ Cardinality(GetIndexes) = 2

\* C12: a 200 answer without an issue element is extracted to the empty
\* record; get_ticket_data returns a value other than None for it and the
\* crawl does not count the ticket in not_found.
C12_NoItemIsNotNotFound ==
    /\ [](  (pc \in {"classify", "sleep"} /\ resps # <<>>
                /\ Last(resps) = NoItemResp)
            => /\ extract_ticket_data(Last(resps)).keys = {}
               /\ ticket_data # None
               /\ ticket_data.keys = {"id"})
    /\ [][(Counts /\ resps # <<>> /\ Last(resps) = NoItemResp)
            => stats'.not_found = stats.not_found]_vars

\* a ticket answered with a document without an issue element is counted
C12_Witness ==
    /\ pc = "sleep"
    /\ resps # <<>>
    /\ Last(resps) = NoItemResp
    /\ stats.not_found = 0

\* C13: a record that get_ticket_data returns has a non-empty id: the key
\* of the issue when the document has one, the requested ID otherwise.
C13_IdIsOwnKeyOrRequested ==
    (pc \in {"classify", "sleep"} /\ resps # <<>> /\ Last(resps).kind = "ok")
    => /\ ticket_data.id # ""
       /\ ticket_data.id = IF Last(resps).hasItem /\ Last(resps).key # ""
                           THEN Last(resps).key
                           ELSE TicketId(project_key, ticket_num)

\* the step in which the authenticator's flow runs
FlowRuns == flowCount' = flowCount + 1

Has(seq, e) == \E i \in DOMAIN seq : seq[i] = e

Count(seq, set) == Cardinality({i \in DOMAIN seq : seq[i] \in set})

SaveEvents == {"save_ok", "save_open_fails", "save_dump_fails"}

\* the part of the flow's log before the terminal is asked, and the rest
LoadPart == IF authLog # <<>> /\ authLog[1] = "load_ok" THEN 2 ELSE 1

AfterChoice == SubSeq(authLog, LoadPart + 2, Len(authLog))

CookieFlowLogs ==
    {<<"clear", "install", "probe_fail">>}
    \cup {<<"clear", "install", "probe_ok", sv>> : sv \in SaveEvents}

CredentialFlowLogs ==
    {<<"credentials_missing">>, <<"login_page_fail">>,
     <<"login_page_ok", "post_fail">>,
     <<"login_page_ok", "post_ok", "probe_fail">>}
    \cup {<<"login_page_ok", "post_ok", "probe_ok", sv>> : sv \in SaveEvents}

\* C14: the authenticator first loads the stored cookies and, if there are
\* any, probes; a good probe ends the call with True and nothing else is
\* done; otherwise the terminal chooses a method once and exactly the flow
\* of that method runs and gives the result.
C14_LoadProbeThenChosenFlow ==
    /\ [](authLog # <<>> =>
            /\ authLog[1] \in {"load_ok", "load_none"}
            /\ Len(authLog) >= 2
            /\ (authLog[1] = "load_ok") => (authLog[2] \in {"probe_ok", "probe_fail"})
            /\ IF authLog[1] = "load_ok" /\ authLog[2] = "probe_ok"
               THEN authLog = <<"load_ok", "probe_ok">> /\ lastEnsure
               ELSE /\ authLog[LoadPart + 1] \in {"choose_cookies", "choose_credentials"}
                    /\ (authLog[LoadPart + 1] = "choose_cookies")
                          => AfterChoice \in CookieFlowLogs
                    /\ (authLog[LoadPart + 1] = "choose_credentials")
                          => AfterChoice \in CredentialFlowLogs
                    /\ lastEnsure <=> Has(AfterChoice, "probe_ok"))
    /\ [][FlowRuns => ((authLog'[1] = "load_ok") <=> (cookie_file.state = "ok"))]_vars

\* stored cookies were loaded, the probe failed and the cookie flow then
\* succeeded
C14_Witness ==
    /\ Len(authLog) >= 3
    /\ authLog[1] = "load_ok"
    /\ authLog[2] = "probe_fail"
    /\ authLog[3] = "choose_cookies"
    /\ lastEnsure

\* C15 as stated: a login that returns True has written the jar to the
\* store, whatever the write did, and one that returns False has left the
\* store alone.
C15_StoreWrittenOnSuccess ==
    /\ [](  (authLog # <<>> /\ lastEnsure
                /\ (Has(authLog, "choose_cookies") \/ Has(authLog, "choose_credentials")))
            => cookie_file = [state |-> "ok", jar |-> cookies])
    /\ [][(FlowRuns /\ ~lastEnsure') => cookie_file' = cookie_file]_vars

\* C15 as amended: a login that returns True has called save_cookies with the
\* jar as its last act; a write that succeeds leaves the jar in the store, a
\* write that fails leaves the store as it was or unreadable; a login that
\* returns False leaves the store alone.
C15_SaveAttemptedOnSuccess ==
    /\ [](  (authLog # <<>> /\ lastEnsure
                /\ (Has(authLog, "choose_cookies") \/ Has(authLog, "choose_credentials")))
            => /\ Last(authLog) \in SaveEvents
               /\ Count(authLog, SaveEvents) = 1
               /\ (Last(authLog) = "save_ok")
                     => cookie_file = [state |-> "ok", jar |-> cookies])
    /\ [][FlowRuns =>
            /\ (Last(authLog') = "save_open_fails") => cookie_file' = cookie_file
            /\ (Last(authLog') = "save_dump_fails") => cookie_file' = CorruptFile
            /\ (~lastEnsure') => cookie_file' = cookie_file]_vars

\* a login with credentials succeeded and the jar is in the store
C15_Witness ==
    /\ authLog # <<>>
    /\ Has(authLog, "post_ok")
    /\ Last(authLog) = "save_ok"
    /\ lastEnsure
    /\ cookie_file = [state |-> "ok", jar |-> cookies]

\* C16: when the probe of the cookies loaded from the store fails, those
\* cookies are out of the jar before the chosen login runs, for both methods.
C16_StaleCookiesRemoved ==
    (Len(authLog) >= 4 /\ authLog[1] = "load_ok" /\ authLog[2] = "probe_fail"
        /\ (Has(authLog, "install") \/ Has(authLog, "login_page_ok")))
    => "file" \notin cookies

\* C17: login_with_cookies empties the jar, installs the given cookies,
\* probes and returns what the probe gave; the jar then holds the given
\* cookies and none from before.
C17_CookieLoginReplacesJar ==
    (authLog # <<>> /\ Has(authLog, "choose_cookies"))
    => /\ Len(AfterChoice) >= 3
       /\ SubSeq(AfterChoice, 1, 2) = <<"clear", "install">>
       /\ AfterChoice[3] \in {"probe_ok", "probe_fail"}
       /\ lastEnsure <=> (AfterChoice[3] = "probe_ok")
       /\ cookies = {"input"}

\* cookies loaded from the store were in the jar when the cookie login ran
C17_Witness ==
    /\ Len(authLog) >= 3
    /\ authLog[1] = "load_ok"
    /\ authLog[3] = "choose_cookies"
    /\ cookies = {"input"}

\* C18: one run of the authenticator posts the login form at most once or
\* installs cookies at most once, and a failed probe, login page or POST
\* ends it with False.
C18_NoLoginRetry ==
    /\ [](authLog # <<>> =>
            /\ Count(authLog, {"post_ok", "post_fail"})
                 + Count(authLog, {"install"}) <= 1
            /\ Count(authLog, {"login_page_ok", "login_page_fail"}) <= 1
            /\ Count(authLog, {"choose_cookies", "choose_credentials"}) <= 1
            /\ (Last(authLog) \in {"probe_fail", "login_page_fail", "post_fail",
                                   "credentials_missing"})
                  => ~lastEnsure)
    /\ [][/\ flowCount' \in {flowCount, flowCount + 1}
          /\ (ensureCalls' = ensureCalls + 1 /\ ~lastEnsure') => FlowRuns]_vars

\* the login form was posted once, the probe failed and the call gave False
C18_Witness ==
    /\ authLog # <<>>
    /\ Count(authLog, {"post_ok"}) = 1
    /\ Last(authLog) = "probe_fail"
    /\ ~lastEnsure

\* ---- date normalization
\* The offset of an ISO-8601 date-time: Z, or a sign with HH:MM (extended) or
\* HHMM (basic), hours below 24 and minutes below 60
IsoOffset(z) ==
    \/ z = <<"Z">>
    \/ /\ Len(z) \in {5, 6}
       /\ z[1] \in {"+", "-"}
       /\ Len(z) = 6 => z[4] = ":"
       /\ \A i \in {2, 3, Len(z) - 1, Len(z)} : z[i] \in Digit
       /\ int(SubSeq(z, 2, 3)) <= 23
       /\ int(SubSeq(z, Len(z) - 1, Len(z))) <= 59

\* what may follow the seconds: a fraction, then an offset
IsoSuffix(r) ==
    LET frac == r # <<>> /\ r[1] = "."
        fe == IF frac THEN RunEnd(r, 2, Digit) ELSE 1
        z == SubSeq(r, fe, Len(r))
    IN  /\ frac => fe > 2
        /\ z = <<>> \/ IsoOffset(z)

\* YYYY-MM-DDTHH:MM:SS of a day that exists and a time of the day, then the
\* suffix
IsoDateTime(t) ==
    /\ Len(t) >= 19
    /\ \A i \in {1, 2, 3, 4, 6, 7, 9, 10, 12, 13, 15, 16, 18, 19} : t[i] \in Digit
    /\ t[5] = "-" /\ t[8] = "-" /\ t[11] = "T" /\ t[14] = ":" /\ t[17] = ":"
    /\ int(SubSeq(t, 6, 7)) \in 1 .. 12
    /\ int(SubSeq(t, 9, 10)) \in
         1 .. days_in_month(int(SubSeq(t, 1, 4)), int(SubSeq(t, 6, 7)))
    /\ int(SubSeq(t, 12, 13)) <= 23
    /\ int(SubSeq(t, 15, 16)) <= 59
    /\ int(SubSeq(t, 18, 19)) <= 59
    /\ IsoSuffix(SubSeq(t, 20, Len(t)))

\* the number of the month an English month name (short or long, any case) names
MonthOfName(name) == IndexIn(a_month, SubSeq(lower(name), 1, 3))

\* the month name of a text of the RFC-822 layout
InputMonthName == Scan(pattern, date_text, 1, <<>>).f["month_name"]

\* C19: date normalization returns a valid ISO-8601 date-time or its input
\* unchanged; a text only the regex fallback handles comes back as a valid
\* ISO-8601 date-time whose month is the two-digit number of the text's month
\* name; every other unrecognized text comes back unchanged.
C19_IsoOrUnchanged ==
    date_via # "" =>
        /\ IsoDateTime(date_out) \/ date_out = date_text
        /\ date_via = "regex" =>
              /\ IsoDateTime(date_out)
              /\ SubSeq(date_out, 6, 7) = Dig(MonthOfName(InputMonthName), 2)
        /\ date_via = "unchanged" => date_out = date_text

\* the format that parsed the text, and the fields it found
ViaFormat == IndexIn(FormatVia, date_via)
InputFields == Scan(formats_to_try[ViaFormat], date_text, 1, <<>>).f
InputMonth ==
    IF "b" \in DOMAIN InputFields THEN MonthOfName(InputFields["b"])
    ELSE int(InputFields["m"])
InputMicros ==
    IF "f" \in DOMAIN InputFields
    THEN int(InputFields["f"]) * (10 ^ (6 - Len(InputFields["f"])))
    ELSE 0
InputHasOffset == "z" \in DOMAIN InputFields
InputOffset ==
    LET z == InputFields["z"]
        n == Len(z)
    IN  IF z = <<"Z">> THEN 0
        ELSE (IF z[1] = "-" THEN 0 - 1 ELSE 1)
             * (60 * int(SubSeq(z, 2, 3)) + int(SubSeq(z, n - 1, n)))

\* the parts of the text that came back
OutFraction == IF Len(date_out) > 19 /\ date_out[20] = "." THEN 7 ELSE 0
OutMicros == IF OutFraction = 0 THEN 0 ELSE int(SubSeq(date_out, 21, 26))
OutZone == SubSeq(date_out, 20 + OutFraction, Len(date_out))
OutOffset ==
    (IF OutZone[1] = "-" THEN 0 - 1 ELSE 1)
    * (60 * int(SubSeq(OutZone, 2, 3)) + int(SubSeq(OutZone, 5, 6)))

\* C20: a text in one of the five formats is parsed by the first format of
\* the list that fits it and comes back as the ISO-8601 date-time with the
\* same year, month, day, hour, minute, second and fraction and, if the text
\* carries an offset, the same offset written as +HH:MM or -HH:MM.
C20_FormatsRoundTrip ==
    date_via \in CharsOf(FormatVia) =>
        /\ \A j \in 1 .. (ViaFormat - 1) : ~strptime(date_text, formats_to_try[j]).ok
        /\ IsoDateTime(date_out)
        /\ int(SubSeq(date_out, 1, 4)) = int(InputFields["Y"])
        /\ int(SubSeq(date_out, 6, 7)) = InputMonth
        /\ int(SubSeq(date_out, 9, 10)) = int(InputFields["d"])
        /\ int(SubSeq(date_out, 12, 13)) = int(InputFields["H"])
        /\ int(SubSeq(date_out, 15, 16)) = int(InputFields["M"])
        /\ int(SubSeq(date_out, 18, 19)) = int(InputFields["S"])
        /\ OutMicros = InputMicros
        /\ IF InputHasOffset
           THEN /\ Len(OutZone) = 6
                /\ OutZone[1] \in {"+", "-"}
                /\ OutZone[4] = ":"
                /\ OutOffset = InputOffset
           ELSE OutZone = <<>>

\* "Thu, 19 Jun 2025 15:01:03 +0700" came back as "2025-06-19T15:01:03+07:00"
C20_Witness ==
    /\ date_via = "format1"
    /\ date_text = <<"T", "h", "u", ",", " ", "1", "9", " ", "J", "u", "n", " ",
                     "2", "0", "2", "5", " ", "1", "5", ":", "0", "1", ":",
                     "0", "3", " ", "+", "0", "7", "0", "0">>
    /\ date_out = <<"2", "0", "2", "5", "-", "0", "6", "-", "1", "9", "T",
                    "1", "5", ":", "0", "1", ":", "0", "3",
                    "+", "0", "7", ":", "0", "0">>

\* ---- authentication during the crawl
\* what authentication has done and holds
AuthState == <<authenticated, cookies, cookie_file, username, password,
               authLog, flowCount, ensureCalls, lastEnsure>>

\* C24: between the ensure_authenticated call at the head of crawl_tickets
\* and the return of crawl_tickets nothing probes, logs in, loads, clears or
\* saves cookies or asks for credentials, and _authenticated does not change,
\* whatever the GETs for the tickets are answered.
C24_AuthFixedDuringCrawl ==
    [][pc # "idle" => AuthState' = AuthState]_vars

\* a crawl that probed and authenticated at its head has gone through two
\* tickets and is about to return
C24_Witness ==
    /\ pc = "done"
    /\ authenticated
    /\ flowCount = 1
    /\ stats.total_attempted = 2
    /\ Has(authLog, "probe_ok")

\* C25: every successfully written ticket has its own file, which later
\* tickets of the run leave alone, so a finished run leaves as many complete
\* files as it counted successful tickets.
C25_RecordsEqualSuccessful ==
    pc = "done" => Cardinality({f \in files : f.complete}) = stats.successful

\* C26: a 200 answer without an item element gives neither a file nor a
\* successful count.
C26_NoItemNeverSaved ==
    [][(Counts /\ resps # <<>> /\ Last(resps) = NoItemResp)
        => (stats'.successful = stats.successful /\ files' = files)]_vars

\* C27: a ticket is counted only after at least one GET for it, and counted
\* not_found only after a GET for it was answered 404, for every
\* max_retries >= 0.
C27_CountedOnlyAfterFetch ==
    [][Counts =>
        /\ resps # <<>>
        /\ stats'.not_found > stats.not_found
              => \E i \in DOMAIN resps : resps[i].kind = "not_found"]_vars

\* ---- chunk_text
\* C29: chunk_text returns for every text, every max_tokens > 0 and every
\* overlap >= 0, overlap >= max_tokens included: every iteration of its loop
\* moves the window start forward.
C29_StartIncreases ==
    [][Len(ch_chunks') > Len(ch_chunks) => ch_start' > ch_start]_vars

\* ---- format_for_rag
\* how often an entry occurs in a list
Occurs(list, e) == Cardinality({i \in DOMAIN list : list[i] = e})

\* how often it occurs in the lists of all sections
OccursInSections(e) ==
    LET names == DOMAIN fmt_sections
        RECURSIVE Sum(_)
        Sum(S) == IF S = {} THEN 0
                  ELSE LET n == CHOOSE n \in S : TRUE
                       IN  Occurs(fmt_sections[n], e) + Sum(S \ {n})
    IN  Sum(names)

\* C28: format_for_rag loses no related ticket: every entry of
\* related_tickets is in the output as often as in the input, in the list of
\* its lower-cased section name, for any number of entries in a section and
\* any letter case of the names.
C28_NoRelatedLost ==
    fmt_pc = "done" =>
        \A e \in RelatedEntries :
            /\ OccursInSections(e) = Occurs(fmt_related, e)
            /\ Occurs(fmt_related, e) > 0 =>
                  /\ lower(e.section_name) \in DOMAIN fmt_sections
                  /\ Occurs(fmt_sections[lower(e.section_name)], e)
                       = Occurs(fmt_related, e)

\* ---- _extract_issue_links
Directions == {"inward", "outward"}

\* the places of the document where the key k is linked: link type, direction
\* and position
LinkPlaces(k) ==
    {<<i, dir, n>> \in (DOMAIN link_doc.blocks) \X Directions \X (1 .. MaxLinks + 1) :
        /\ n \in DOMAIN Side(link_doc.blocks[i], dir).keys
        /\ Side(link_doc.blocks[i], dir).keys[n] = k}

\* the relationship label and the section name the link at a place has
PlaceRelationship(p) ==
    LET dsc == Side(link_doc.blocks[p[1]], p[2]).description
    IN  IF dsc = "" THEN "relates to" ELSE dsc
PlaceSection(p) ==
    IF link_doc.blocks[p[1]].name = "" THEN "Related Issues"
    ELSE link_doc.blocks[p[1]].name

\* C22: every key linked under a direction, in whatever link type, is one
\* entry of related_tickets that carries the relationship label of its
\* direction ("relates to" without the attribute) and its section name
\* ("Related Issues" without one); an empty issuelinks element gives an empty
\* list.
C22_EveryLinkOneEntry ==
    link_pc = "done" =>
        /\ \A k \in LinkKeys :
              Cardinality({n \in DOMAIN link_out : link_out[n].id = k})
                = Cardinality(LinkPlaces(k))
        /\ \A n \in DOMAIN link_out :
              \E p \in LinkPlaces(link_out[n].id) :
                  /\ link_out[n].relationship = PlaceRelationship(p)
                  /\ link_out[n].section_name = PlaceSection(p)
        /\ link_doc.blocks = <<>> => link_out = <<>>

\* ---- _clean_html_for_rag
\* a text with every run of white space collapsed to one blank
RECURSIVE Collapsed(_, _)
Collapsed(t, i) ==
    IF i > Len(t) THEN <<>>
    ELSE IF t[i] \in White THEN <<" ">> \o Collapsed(t, RunEnd(t, i, White))
    ELSE <<t[i]>> \o Collapsed(t, i + 1)

\* C21: HTML cleaning is applied to the rich-text fields only: every other
\* scalar field is the plain trimmed text of its element, also when that
\* text has markup or runs of white space.
C21_PlainFieldsUncleaned ==
    (clean_pc # "called" /\ clean_field \in PlainFields)
        => clean_out = strip_white(clean_text)

\* C23: cleaning a cleaned text again gives the same text up to white
\* space, also when the cleaned text has markup characters or markdown
\* markers.
C23_CleanIdempotent ==
    clean_pc = "recleaned"
        => Collapsed(clean_again, 1) = Collapsed(clean_out, 1)

====
